---------------------------- MODULE Spec2Model ----------------------------
(***************************************************************************)
(* A model of update-qtile (src/src/main.rs): the source locator            *)
(* (get_source), the PKGBUILD patcher (modify_pkgbuild) and the run of      *)
(* main (remove_repo, clone_repo, install).                                 *)
(*                                                                          *)
(* Text is a sequence of tokens; a token is a chunk of characters and the   *)
(* text is the concatenation of its tokens.  The line terminator is the     *)
(* token NL.  Option<String> is a sequence of length 0 (None) or 1 (Some).  *)
(***************************************************************************)
EXTENDS Integers, Sequences, FiniteSets, TLC

VARIABLES
    args,         \* the parsed Args
    source,       \* the String get_source returned
    pc,           \* position of the run
    exit_code,    \* exit status of the process; Running until it ends
    repo,         \* the working directory repo_path on disk
    ans,          \* the answers read from the privilege prompt
    pkgbuild,     \* contents of repo_path/PKGBUILD
    install_log,  \* contents of repo_path/install.log (its section markers)
    fs,           \* kind of each installed artifact path on disk
    trace,        \* the external operations performed, in order
    orig,         \* modify_pkgbuild: lines.clone(), the enumeration scanned
    lines,        \* modify_pkgbuild: the live Vec<String>
    index,        \* modify_pkgbuild: the enumerate() index of the next line
    del_index     \* install: position of `for s in to_be_deleted`

vars ==
    <<args, source, pc, exit_code, repo, ans, pkgbuild, install_log, fs,
      trace, orig, lines, index, del_index>>

----------------------------------------------------------------------------
(* Option<String> *)

None ==
    <<>>

Some(s) ==
    <<s>>

IsSome(o) ==
    Len(o) = 1

Unwrap(o) ==
    o[1]

----------------------------------------------------------------------------
(* get_source *)

ForkNames ==
    {"qtile", "alice", "bob"}

LocalPaths ==
    {"/home/u/qtile"}

CommitIds ==
    {"abc123"}

TagNames ==
    {"v0.28.1"}

BranchNames ==
    {"next"}

Opt(S) ==
    {None} \cup {Some(s) : s \in S}

\* Every value of the struct Args.
AllArgs ==
    [fork : Opt(ForkNames), path : Opt(LocalPaths), commit : Opt(CommitIds),
     branch : Opt(BranchNames), tag : Opt(TagNames), restart : BOOLEAN]

\* origin with the fork taken before the path.
origin_fork_first(a) ==
    IF IsSome(a.fork)
    THEN "https://github.com/" \o Unwrap(a.fork) \o "/qtile"
    ELSE IF IsSome(a.path)
         THEN "file://" \o Unwrap(a.path)
         ELSE "https://github.com/qtile/qtile"

\* let source = if let Some(path) ... else if let Some(fork) ... else ...
origin(a) ==
    IF IsSome(a.path)
    THEN "file://" \o Unwrap(a.path)
    ELSE IF IsSome(a.fork)
         THEN "https://github.com/" \o Unwrap(a.fork) \o "/qtile"
         ELSE "https://github.com/qtile/qtile"

\* get_source with the tag taken before the commit.
get_source_tag_first(a) ==
    IF IsSome(a.tag)
    THEN origin(a) \o "#tag=" \o Unwrap(a.tag)
    ELSE IF IsSome(a.commit)
         THEN origin(a) \o "#commit=" \o Unwrap(a.commit)
         ELSE IF IsSome(a.branch)
              THEN origin(a) \o "#branch=" \o Unwrap(a.branch)
              ELSE origin(a)

get_source(a) ==
    IF IsSome(a.commit)
    THEN origin(a) \o "#commit=" \o Unwrap(a.commit)
    ELSE IF IsSome(a.tag)
         THEN origin(a) \o "#tag=" \o Unwrap(a.tag)
         ELSE IF IsSome(a.branch)
              THEN origin(a) \o "#branch=" \o Unwrap(a.branch)
              ELSE origin(a)

----------------------------------------------------------------------------
(* Text: split_inclusive('\n'), concat, Regex::is_match, Vec::insert *)

NL ==
    "\n"

\* The closing delimiter of the two delimited patterns.
CloseParen ==
    ")"

RECURSIVE split_from(_, _, _, _)
split_from(text, i, cur, acc) ==
    IF i > Len(text)
    THEN IF cur = <<>> THEN acc ELSE Append(acc, cur)
    ELSE IF text[i] = NL
         THEN split_from(text, i + 1, <<>>, Append(acc, Append(cur, NL)))
         ELSE split_from(text, i + 1, Append(cur, text[i]), acc)

\* str::split_inclusive('\n'): every line keeps its terminator; a last piece
\* without terminator is a line of its own.
split_inclusive(text) ==
    split_from(text, 1, <<>>, <<>>)

RECURSIVE concat(_)
concat(ls) ==
    IF ls = <<>> THEN <<>> ELSE Head(ls) \o concat(Tail(ls))

\* An unanchored match of  <open>.*\)  : `.` does not match the terminator.
delimited_is_match(open, line) ==
    \E i \in 1..Len(line) :
        /\ line[i] = open
        /\ \E j \in (i + 1)..Len(line) :
               /\ line[j] = CloseParen
               /\ \A k \in i..j : line[k] # NL

\* An unanchored match of  .*<word>
word_is_match(word, line) ==
    \E i \in 1..Len(line) : line[i] = word

\* Regex::new(r"license=\(.*\)")
license_regex_is_match(line) ==
    delimited_is_match("license=(", line)

\* Regex::new(r"source=\(.*\)")
source_regex_is_match(line) ==
    delimited_is_match("source=(", line)

\* Regex::new(r".*cd qtile")
cd_regex_is_match(line) ==
    word_is_match("cd qtile", line)

\* Regex::new(r".*git describe")
describe_regex_is_match(line) ==
    word_is_match("git describe", line)

\* "groups=('modified')\n"
GroupsLine ==
    <<"groups=('modified')", NL>>

\* format!("source=('git+{}')\n", source)
SourceLine(src) ==
    <<"source=(", "'git+" \o src \o "'", CloseParen, NL>>

\* "  git remote add upstream https://github.com/qtile/qtile.git\n"
RemoteAddLine ==
    <<"  ", "git remote add upstream https://github.com/qtile/qtile.git", NL>>

\* "  git fetch upstream --tags --force\n"
FetchTagsLine ==
    <<"  ", "git fetch upstream --tags --force", NL>>

\* Vec::insert(i, x) with the 0-based index i <= len.
vec_insert(v, i, x) ==
    SubSeq(v, 1, i) \o <<x>> \o SubSeq(v, i + 1, Len(v))

\* v[i] with the 0-based index i < len.
vec_at(v, i) ==
    v[i + 1]

\* v[i] = x with the 0-based index i < len.
vec_set(v, i, x) ==
    [v EXCEPT ![i + 1] = x]

----------------------------------------------------------------------------
(* modify_pkgbuild: the body of the loop                                   *)
(*   for (index, line) in lines.clone().into_iter().enumerate()            *)
(* on the live Vec `live`.  The result is the Vec after the iteration, or  *)
(* panic = TRUE when an index is out of the bounds of the live Vec.        *)

\* after_license with the marker inserted after every line.
after_license_always(live, i, line) ==
    vec_insert(live, i + 1, GroupsLine)

\* after_license with the marker inserted at index, before the line.
after_license_before(live, i, line) ==
    IF license_regex_is_match(line)
    THEN vec_insert(live, i, GroupsLine)
    ELSE live

\* if license_regex.is_match(&line) { lines.insert(index + 1, ..) }
after_license(live, i, line) ==
    IF license_regex_is_match(line)
    THEN vec_insert(live, i + 1, GroupsLine)
    ELSE live

\* after_source with the new line inserted at index + 1.
after_source_inserting(l1, i, line, src) ==
    IF source_regex_is_match(line) /\ i + 1 < Len(l1)
    THEN vec_insert(l1, i + 1, SourceLine(src))
    ELSE l1

\* after_source with the line at index replaced.
after_source_at_index(l1, i, line, src) ==
    IF source_regex_is_match(line) /\ i + 1 < Len(l1)
    THEN vec_set(l1, i, SourceLine(src))
    ELSE l1

\* if source_regex.is_match(&line) { lines[index + 1] = inserted }
after_source(l1, i, line, src) ==
    IF source_regex_is_match(line) /\ i + 1 < Len(l1)
    THEN vec_set(l1, i + 1, SourceLine(src))
    ELSE l1

\* cd_regex.is_match(&line) && describe_regex.is_match(&lines[index + 2])
describe_fires(l2, i, line) ==
    /\ cd_regex_is_match(line)
    /\ i + 2 < Len(l2)
    /\ describe_regex_is_match(vec_at(l2, i + 2))

\* after_cd with the two lines inserted at index + 1 and index + 2.
after_cd_next_line(l2, i, line) ==
    IF describe_fires(l2, i, line)
    THEN vec_insert(vec_insert(l2, i + 1, RemoteAddLine), i + 2, FetchTagsLine)
    ELSE l2

\* lines.insert(index + 2, ..); lines.insert(index + 3, ..)
after_cd(l2, i, line) ==
    IF describe_fires(l2, i, line)
    THEN vec_insert(vec_insert(l2, i + 2, RemoteAddLine), i + 3, FetchTagsLine)
    ELSE l2

scan_step(live, i, line, src) ==
    LET l1 == after_license(live, i, line)
        l2 == after_source(l1, i, line, src)
        l3 == after_cd(l2, i, line)
        oob_insert == license_regex_is_match(line) /\ i + 1 > Len(live)
        oob_set == source_regex_is_match(line) /\ i + 1 >= Len(l1)
        oob_read == cd_regex_is_match(line) /\ i + 2 >= Len(l2)
    IN  IF oob_insert
        THEN [panic |-> TRUE, lines |-> live]
        ELSE IF oob_set
             THEN [panic |-> TRUE, lines |-> l1]
             ELSE IF oob_read
                  THEN [panic |-> TRUE, lines |-> l2]
                  ELSE [panic |-> FALSE, lines |-> l3]

RECURSIVE scan_from(_, _, _, _)
\* The whole loop from iteration i on.
scan_from(o, live, i, src) ==
    IF i >= Len(o)
    THEN [panic |-> FALSE, lines |-> live]
    ELSE LET r == scan_step(live, i, o[i + 1], src)
         IN  IF r.panic THEN r ELSE scan_from(o, r.lines, i + 1, src)

\* modify_lines that leaves a PKGBUILD with a marker line as it is.
modify_lines_dedup(text, src) ==
    IF \E p \in DOMAIN split_inclusive(text) :
           split_inclusive(text)[p] = GroupsLine
    THEN [panic |-> FALSE, lines |-> split_inclusive(text)]
    ELSE scan_from(split_inclusive(text), split_inclusive(text), 0, src)

\* The lines modify_pkgbuild writes for the PKGBUILD `text`.
modify_lines(text, src) ==
    scan_from(split_inclusive(text), split_inclusive(text), 0, src)

----------------------------------------------------------------------------
(* The inputs and the environment of a run *)

\* Longest PKGBUILD, in lines, the patcher is checked on.
MaxLines ==
    4

LicenseDecl ==
    <<"license=(", "'MIT'", CloseParen>>

SourceDecl ==
    <<"source=(", "'git+https://github.com/qtile/qtile.git'", CloseParen>>

CdLine ==
    <<"  ", "cd qtile">>

DescribeLine ==
    <<"  ", "git describe", " --long --tags">>

\* One line that matches two patterns.
CdDescribeLine ==
    <<"  ", "cd qtile", " && ", "git describe", " --long --tags">>

OtherLine ==
    <<"pkgname=qtile-git">>

RecipeLines ==
    {LicenseDecl, SourceDecl, CdLine, DescribeLine, CdDescribeLine, OtherLine}

\* The text of the lines d; the last line ends the file with or without NL.
FileOf(d, eof_nl) ==
    concat([i \in 1..Len(d) |->
               IF i < Len(d) \/ eof_nl THEN Append(d[i], NL) ELSE d[i]])

RecipeFiles ==
    {FileOf(d, b) : d \in UNION {[1..n -> RecipeLines] : n \in 0..MaxLines},
                    b \in BOOLEAN}

\* The PKGBUILD of the AUR package qtile-git, and one that ends with its
\* source line.
AurRecipe ==
    FileOf(<<OtherLine, LicenseDecl, SourceDecl, <<"pkgver() {">>, CdLine,
             DescribeLine, <<"}">>>>, TRUE)

CutRecipe ==
    FileOf(<<OtherLine, SourceDecl>>, TRUE)

FetchedRecipes ==
    {AurRecipe, CutRecipe}

\* What clap accepts: fork has a default value, fork and path conflict, and
\* commit, branch and tag are one group.
ClapArgs ==
    {a \in AllArgs :
        /\ IsSome(a.fork)
        /\ IsSome(a.path) => a.fork = Some("qtile")
        /\ Len(a.commit) + Len(a.branch) + Len(a.tag) <= 1}

\* The command lines the whole run is checked on.
RunArgs ==
    {a \in ClapArgs : a.fork = Some("qtile") /\ a.path = None
                      /\ a.commit = None /\ a.tag = None}

\* The answers typed at the prompt.
Answers ==
    {"", "y", "Y", "n", "yes"}

\* Affirmative with every answer that starts with y.
AffirmativeWithYes ==
    {"Y", "y", "", "yes"}

\* ["Y", "y", ""].contains(&ans.as_str())
Affirmative ==
    {"Y", "y", ""}

\* self.repo_path
RepoPath ==
    "~/.cache/yay/qtile-git"

AurUrl ==
    "https://aur.archlinux.org/qtile-git"

to_be_deleted ==
    <<"/usr/bin/qtile",
      "/usr/lib/python3.12/site-packages/libqtile",
      "/usr/share/doc/qtile-git",
      "/usr/share/licenses/qtile-git/LICENSE",
      "/usr/share/wayland-sessions/qtile-wayland.desktop",
      "/usr/share/xsessions/qtile.desktop">>

ArtifactPaths ==
    {to_be_deleted[i] : i \in 1..Len(to_be_deleted)}

\* What a path is on disk.
PathKinds ==
    {"absent", "file", "dir"}

\* serde_json::Value
NonNullReplies ==
    {"Bool", "Number", "String", "Array", "Object"}

Replies ==
    {"Null"} \cup NonNullReplies

BuildingHeader ==
    "building new package"

RemovingHeader ==
    "removing old package"

InstallingHeader ==
    "installing new package"

InstalledMarker ==
    "package installed successfully"

BuildFailedMsg ==
    "Qtile build failed, check in " \o RepoPath \o "/install.log"

InstallFailedMsg ==
    "Qtile install failed, check in " \o RepoPath \o "/install.log"

Event(op, arg, res) ==
    [op |-> op, arg |-> arg, res |-> res]

LogError(msg) ==
    Event("log::error", msg, "")

\* log::info!("please restart qtile")
Reminder ==
    Event("log::info", "please restart qtile", "")

----------------------------------------------------------------------------
(* How the process ends *)

\* fn error_and_exit: log::error!("{err}"); exit(1)
error_and_exit(tr, msg) ==
    /\ trace' = Append(tr, LogError(msg))
    /\ exit_code' = Some(1)
    /\ pc' = "exited"

\* A panic (todo!(), unwrap() on None, an index out of bounds): status 101.
panic(tr) ==
    /\ trace' = tr
    /\ exit_code' = Some(101)
    /\ pc' = "exited"

\* main returns after install() returned Ok(()).
main_returns(tr) ==
    /\ trace' = tr
    /\ exit_code' = Some(0)
    /\ pc' = "exited"

----------------------------------------------------------------------------
(* main: get_source, remove_repo, clone_repo *)

GetSource ==
    /\ pc = "main"
    /\ source' = get_source(args)
    /\ pc' = "remove_repo"
    /\ UNCHANGED <<args, exit_code, repo, ans, pkgbuild, install_log, fs,
                   trace, orig, lines, index, del_index>>

\* remove_repo up to the prompt: the ordinary recursive delete.
RemoveRepo ==
    /\ pc = "remove_repo"
    /\ \/ /\ repo = "absent"
          /\ pc' = "clone_repo"
          /\ UNCHANGED <<repo, trace>>
       \/ /\ repo # "absent"
          /\ \E r \in {"ok", "err"} :
                /\ trace' = Append(trace, Event("remove_dir_all", RepoPath, r))
                /\ IF r = "ok"
                   THEN repo' = "absent" /\ pc' = "clone_repo"
                   ELSE repo' \in {"empty", "nonempty"} /\ pc' = "prompt"
    /\ UNCHANGED <<args, source, exit_code, ans, pkgbuild, install_log, fs,
                   orig, lines, index, del_index>>

\* remove_repo from the prompt on: read the answer, run sudo rm -rf.
PromptAnswer ==
    /\ pc = "prompt"
    /\ \E a \in Answers :
          /\ ans' = Append(ans, a)
          /\ IF a \in Affirmative
             THEN \E r \in {"success", "failure", "err"} :
                     LET tr == trace \o <<Event("prompt", "", a),
                                          Event("sudo rm -rf", RepoPath, r)>>
                     IN  CASE r = "success" ->
                                /\ repo' = "absent"
                                /\ trace' = tr
                                /\ pc' = "clone_repo"
                                /\ UNCHANGED exit_code
                           [] r = "failure" ->
                                /\ repo' = repo
                                /\ error_and_exit(tr, "could not run sudo")
                           [] r = "err" ->
                                /\ repo' = repo
                                /\ error_and_exit(tr, "sudo: spawn error")
             ELSE /\ trace' = Append(trace, Event("prompt", "", a))
                  /\ pc' = "clone_repo"
                  /\ UNCHANGED <<repo, exit_code>>
    /\ UNCHANGED <<args, source, pkgbuild, install_log, fs, orig, lines,
                   index, del_index>>

\* clone_repo up to the call of modify_pkgbuild: git2::Repository::clone,
\* which refuses a directory that is not empty.
CloneRepo ==
    /\ pc = "clone_repo"
    /\ \E r \in (IF repo = "nonempty" THEN {"err"} ELSE {"ok", "err"}) :
          LET tr == Append(trace, Event("git clone", AurUrl, r))
          IN  IF r = "ok"
              THEN /\ repo' = "nonempty"
                   /\ pkgbuild' \in FetchedRecipes
                   /\ trace' = tr
                   /\ pc' = "modify_pkgbuild"
                   /\ UNCHANGED exit_code
              ELSE /\ error_and_exit(tr, "AUR URL is unreachable")
                   /\ UNCHANGED <<repo, pkgbuild>>
    /\ UNCHANGED <<args, source, ans, install_log, fs, orig, lines, index,
                   del_index>>

----------------------------------------------------------------------------
(* modify_pkgbuild *)

\* read_to_string and split_inclusive
PatchRead ==
    /\ pc = "modify_pkgbuild"
    /\ \E r \in {"ok", "err"} :
          LET tr == Append(trace, Event("read", "PKGBUILD", r))
          IN  IF r = "ok"
              THEN /\ lines' = split_inclusive(pkgbuild)
                   /\ orig' = split_inclusive(pkgbuild)
                   /\ index' = 0
                   /\ trace' = tr
                   /\ pc' = "scan"
                   /\ UNCHANGED exit_code
              ELSE /\ error_and_exit(tr, "could not read PKGBUILD")
                   /\ UNCHANGED <<lines, orig, index>>
    /\ UNCHANGED <<args, source, repo, ans, pkgbuild, install_log, fs,
                   del_index>>

\* One iteration of the loop.
PatchScan ==
    /\ pc = "scan"
    /\ index < Len(orig)
    /\ LET r == scan_step(lines, index, vec_at(orig, index), source)
       IN  /\ lines' = r.lines
           /\ IF r.panic
              THEN panic(trace) /\ UNCHANGED index
              ELSE index' = index + 1 /\ UNCHANGED <<pc, exit_code, trace>>
    /\ UNCHANGED <<args, source, repo, ans, pkgbuild, install_log, fs, orig,
                   del_index>>

\* lines.concat() and std::fs::write; a failed write leaves the file as it
\* was or truncated.
PatchWrite ==
    /\ pc = "scan"
    /\ index = Len(orig)
    /\ \E r \in {"ok", "err"} :
          LET tr == Append(trace, Event("write", "PKGBUILD", r))
          IN  IF r = "ok"
              THEN /\ pkgbuild' = concat(lines)
                   /\ trace' = tr
                   /\ pc' = "install"
                   /\ UNCHANGED exit_code
              ELSE /\ pkgbuild' \in {pkgbuild, <<>>}
                   /\ error_and_exit(tr, "could not write to PKGBUILD")
    /\ UNCHANGED <<args, source, repo, ans, install_log, fs, orig, lines,
                   index, del_index>>

----------------------------------------------------------------------------
(* install *)

\* File::create, OpenOptions::open and the first writeln!.
InstallCreateLog ==
    /\ pc = "install"
    /\ \E r \in {"ok", "create_err", "write_err"} :
          CASE r = "create_err" ->
                 /\ panic(Append(trace, Event("create", "install.log", "err")))
                 /\ UNCHANGED install_log
            [] r = "write_err" ->
                 /\ install_log' = <<>>
                 /\ error_and_exit(
                        Append(trace, Event("create", "install.log", "ok")),
                        "install.log: write error")
            [] r = "ok" ->
                 /\ install_log' = <<BuildingHeader>>
                 /\ trace' = Append(trace, Event("create", "install.log", "ok"))
                 /\ pc' = "build"
                 /\ UNCHANGED exit_code
    /\ UNCHANGED <<args, source, repo, ans, pkgbuild, fs, orig, lines, index,
                   del_index>>

\* build_failed with the run going on to the query.
build_failed_goes_on(tr) ==
    /\ trace' = Append(tr, LogError(BuildFailedMsg))
    /\ pc' = "query"
    /\ UNCHANGED exit_code

\* The else branch of `if makepkg.success()`: log::error! with the path of
\* the log, then install returns Ok(()) and main returns.
build_failed(tr) ==
    main_returns(Append(tr, LogError(BuildFailedMsg)))

\* yes | makepkg -rsc --nocheck, and the writeln! of the removal header.
Build ==
    /\ pc = "build"
    /\ \E r \in {"success", "failure", "err"}, w \in {"ok", "err"} :
          LET tr == Append(trace, Event("makepkg", "-rsc --nocheck", r))
          IN  CASE r = "err" ->
                     /\ w = "ok"
                     /\ error_and_exit(tr, "makepkg: spawn error")
                     /\ UNCHANGED install_log
                [] r = "failure" ->
                     /\ w = "ok"
                     /\ build_failed(tr)
                     /\ UNCHANGED install_log
                [] r = "success" /\ w = "err" ->
                     /\ error_and_exit(tr, "install.log: write error")
                     /\ UNCHANGED install_log
                [] r = "success" /\ w = "ok" ->
                     /\ install_log' = Append(install_log, RemovingHeader)
                     /\ trace' = tr
                     /\ pc' = "query"
                     /\ UNCHANGED exit_code
    /\ UNCHANGED <<args, source, repo, ans, pkgbuild, fs, orig, lines, index,
                   del_index>>

\* after_query with the two branches exchanged.
after_query_if_installed(success) ==
    IF success THEN "remove" ELSE "install_pkg"

\* The branch install takes on the exit status of sudo pacman -Qq qtile-git:
\* the `if` branch is empty, the `else` branch deletes the artifacts.
after_query(success) ==
    IF success THEN "install_pkg" ELSE "remove"

\* sudo pacman -Qq qtile-git
Query ==
    /\ pc = "query"
    /\ \E r \in {"success", "failure", "err"} :
          LET tr == Append(trace, Event("pacman -Qq", "qtile-git", r))
          IN  IF r = "err"
              THEN error_and_exit(tr, "pacman: spawn error")
              ELSE /\ trace' = tr
                   /\ pc' = after_query(r = "success")
                   /\ UNCHANGED exit_code
    /\ UNCHANGED <<args, source, repo, ans, pkgbuild, install_log, fs, orig,
                   lines, index, del_index>>

\* removal_call with the single-file delete for whatever exists.
removal_call_file_only(kind) ==
    IF kind = "absent" THEN "none" ELSE "remove_file"

\* remove_file_or_dir_if_exists: the deletion call for what metadata reports.
removal_call(kind) ==
    IF kind = "dir"
    THEN "remove_dir_all"
    ELSE IF kind = "file" THEN "remove_file" ELSE "none"

\* One iteration of `for s in to_be_deleted`.
RemoveArtifact ==
    /\ pc = "remove"
    /\ del_index < Len(to_be_deleted)
    /\ LET p == vec_at(to_be_deleted, del_index)
       IN  \E k \in PathKinds, r \in {"ok", "err"} :
              LET seen == Append(trace, Event("exists", p, k))
                  tr == IF removal_call(k) = "none"
                        THEN seen
                        ELSE Append(seen, Event(removal_call(k), p, r))
              IN  IF removal_call(k) # "none" /\ r = "err"
                  THEN /\ fs' = [fs EXCEPT ![p] = k]
                       /\ error_and_exit(tr, "remove: io error")
                       /\ UNCHANGED del_index
                  ELSE /\ removal_call(k) = "none" => r = "ok"
                       /\ fs' = [fs EXCEPT ![p] = "absent"]
                       /\ trace' = tr
                       /\ del_index' = del_index + 1
                       /\ pc' = IF del_index + 1 = Len(to_be_deleted)
                                THEN "install_pkg"
                                ELSE "remove"
                       /\ UNCHANGED exit_code
    /\ UNCHANGED <<args, source, repo, ans, pkgbuild, install_log, orig,
                   lines, index>>

\* restart_requested with the flag ignored.
restart_always(a) ==
    TRUE

\* if self.args.restart
restart_requested(a) ==
    a.restart

\* What install does after pacman -U ended with the status `success`: a
\* failure is logged, and the marker is written in both cases.
after_install(tr, success) ==
    IF success THEN tr ELSE Append(tr, LogError(InstallFailedMsg))

\* The writeln! of the install header, the glob, yes | sudo pacman -U, the
\* writeln! of the marker, and the branch on args.restart.
InstallPkg ==
    /\ pc = "install_pkg"
    /\ \E r \in {"header_err", "no_archive", "err", "success", "failure"},
          w \in {"ok", "err"} :
          LET tr == Append(trace,
                           Event("pacman -U", "*.tar.zst --overwrite '*'", r))
              logged == Append(install_log, InstallingHeader)
          IN  CASE r = "header_err" ->
                     /\ w = "ok"
                     /\ error_and_exit(trace, "install.log: write error")
                     /\ UNCHANGED install_log
                [] r = "no_archive" ->
                     /\ w = "ok"
                     /\ install_log' = logged
                     /\ panic(trace)
                [] r = "err" ->
                     /\ w = "ok"
                     /\ install_log' = logged
                     /\ error_and_exit(tr, "pacman: spawn error")
                [] r \in {"success", "failure"} /\ w = "err" ->
                     /\ install_log' = logged
                     /\ error_and_exit(after_install(tr, r = "success"),
                                       "install.log: write error")
                [] r \in {"success", "failure"} /\ w = "ok" ->
                     /\ install_log' = Append(logged, InstalledMarker)
                     /\ IF restart_requested(args)
                        THEN /\ trace' = after_install(tr, r = "success")
                             /\ pc' = "restart"
                             /\ UNCHANGED exit_code
                        ELSE main_returns(
                                 Append(after_install(tr, r = "success"),
                                        Reminder))
    /\ UNCHANGED <<args, source, repo, ans, pkgbuild, fs, orig, lines, index,
                   del_index>>

\* after_restart with a boolean reply taken as an acknowledgment.
after_restart_bool_ok(tr, r) ==
    IF r \in {"Null", "Bool"}
    THEN main_returns(tr)
    ELSE error_and_exit(tr, "restart failed, please restart manually")

\* What install does with the response of the restart call.
after_restart(tr, r) ==
    IF r = "Null"
    THEN main_returns(tr)
    ELSE IF r \in NonNullReplies
         THEN error_and_exit(tr, "restart failed, please restart manually")
         ELSE error_and_exit(tr, "Qtile is probably not running")

\* InteractiveCommandClient::call(.., Some("restart"), ..)
Restart ==
    /\ pc = "restart"
    /\ \E r \in Replies \cup {"Err"} :
          after_restart(Append(trace, Event("restart", "", r)), r)
    /\ UNCHANGED <<args, source, repo, ans, pkgbuild, install_log, fs, orig,
                   lines, index, del_index>>

----------------------------------------------------------------------------
(* The specifications *)

Idle ==
    /\ exit_code = None
    /\ ans = <<>>
    /\ install_log = <<>>
    /\ fs = [p \in ArtifactPaths |-> "unknown"]
    /\ trace = <<>>
    /\ orig = <<>>
    /\ lines = <<>>
    /\ index = 0
    /\ del_index = 0

\* A run of main.
Init ==
    /\ pc = "main"
    /\ args \in RunArgs
    /\ source = ""
    /\ repo \in {"absent", "empty", "nonempty"}
    /\ pkgbuild = <<>>
    /\ Idle

Next ==
    \/ GetSource
    \/ RemoveRepo
    \/ PromptAnswer
    \/ CloneRepo
    \/ PatchRead
    \/ PatchScan
    \/ PatchWrite
    \/ InstallCreateLog
    \/ Build
    \/ Query
    \/ RemoveArtifact
    \/ InstallPkg
    \/ Restart

Spec ==
    Init /\ [][Next]_vars

\* get_source on every value of Args.
SourceInit ==
    /\ pc = "main"
    /\ args \in AllArgs
    /\ source = ""
    /\ repo = "absent"
    /\ pkgbuild = <<>>
    /\ Idle

SourceNext ==
    GetSource

SourceSpec ==
    SourceInit /\ [][SourceNext]_vars

\* modify_pkgbuild on every PKGBUILD of at most MaxLines lines, called by
\* clone_repo with the source of the command line.
PatchInit ==
    /\ pc = "modify_pkgbuild"
    /\ args \in {a \in RunArgs : ~a.restart}
    /\ source = get_source(args)
    /\ repo = "nonempty"
    /\ pkgbuild \in RecipeFiles
    /\ Idle

PatchNext ==
    \/ PatchRead
    \/ PatchScan
    \/ PatchWrite

PatchSpec ==
    PatchInit /\ [][PatchNext]_vars

----------------------------------------------------------------------------
(* The run of main: what the trace shows *)

IsArtifactEvent(e) ==
    /\ e.op \in {"exists", "remove_dir_all", "remove_file"}
    /\ e.arg \in ArtifactPaths

IsArtifactDeletion(e) ==
    /\ e.op \in {"remove_dir_all", "remove_file"}
    /\ e.arg \in ArtifactPaths

\* An event of a phase of install: Building, CheckInstalled, Removing,
\* Installing, Restarting.
IsPhaseEvent(e) ==
    \/ e.op \in {"makepkg", "pacman -Qq", "pacman -U", "restart"}
    \/ IsArtifactEvent(e)

\* A phase that failed: a build, a removal, an install or a restart.
IsPhaseFailure(e) ==
    \/ e.op = "makepkg" /\ e.res # "success"
    \/ IsArtifactDeletion(e) /\ e.res = "err"
    \/ e.op = "pacman -U" /\ e.res # "success"
    \/ e.op = "restart" /\ e.res # "Null"

\* An error of the run: a fetch, a recipe read or write, a log file, a build,
\* an install or a restart that failed, a prompt declined or a privileged
\* delete that failed.
IsRunError(e) ==
    \/ IsPhaseFailure(e)
    \/ e.op \in {"git clone", "read", "write", "create"} /\ e.res = "err"
    \/ e.op = "pacman -Qq" /\ e.res = "err"
    \/ e.op = "prompt" /\ e.res \notin Affirmative
    \/ e.op = "sudo rm -rf" /\ e.res # "success"

\* The prompt was declined, or the privileged delete failed.
IsRefusal(e) ==
    \/ e.op = "prompt" /\ e.res \notin Affirmative
    \/ e.op = "sudo rm -rf" /\ e.res # "success"

\* C1: after a phase of install has failed (build, removal, install,
\* restart), no later phase is executed in that run.
C1_FailedPhaseHalts ==
    \A i, j \in DOMAIN trace :
        i < j /\ IsPhaseFailure(trace[i]) => ~IsPhaseEvent(trace[j])

\* C2: the process exits with code 0 only when no error of any kind occurred
\* in the run.
C2_ExitZeroOnlyOnFullSuccess ==
    exit_code = Some(0) => \A i \in DOMAIN trace : ~IsRunError(trace[i])

\* C3: once the prompt was declined or the privileged delete failed, the run
\* ends with a nonzero exit and performs no fetch, no recipe patching, no
\* build and no install.
C3_RefusalIsFatal ==
    \A i \in DOMAIN trace :
        IsRefusal(trace[i]) =>
            /\ pc = "exited" => exit_code # Some(0)
            /\ \A j \in DOMAIN trace :
                   j > i => trace[j].op \notin
                               {"git clone", "read", "write", "makepkg",
                                "pacman -U"}

QueryResult ==
    {trace[i].res : i \in {k \in DOMAIN trace : trace[k].op = "pacman -Qq"}}

\* C4 as claimed: the artifacts are looked at and deleted only in runs where
\* the query reported the package as installed.
C4_RemovingOnlyIfInstalled ==
    (\E i \in DOMAIN trace : IsArtifactEvent(trace[i]))
        => QueryResult = {"success"}

\* C4 as amended: the Removing step runs only in runs where the query ended
\* without success (the package is not installed); after a query that
\* reported the package as installed no artifact path is looked at or deleted.
C4_RemovingOnlyIfNotInstalled ==
    /\ (\E i \in DOMAIN trace : IsArtifactEvent(trace[i]))
           => QueryResult = {"failure"}
    /\ QueryResult = {"success"}
           => /\ pc # "remove"
              /\ \A p \in ArtifactPaths : fs[p] = "unknown"
    /\ QueryResult = {"failure"} /\ pc \in {"install_pkg", "restart"}
           => \A p \in ArtifactPaths : fs[p] = "absent"

C4_Witness ==
    /\ QueryResult = {"failure"}
    /\ pc = "install_pkg"
    /\ \E i \in DOMAIN trace :
           IsArtifactDeletion(trace[i]) /\ trace[i].res = "ok"

----------------------------------------------------------------------------
(* get_source *)

\* The origin the specification gives: the local path if set, else the fork
\* on GitHub, the fork being qtile when none is named.
SpecOrigin(a) ==
    IF a.path # None
    THEN "file://" \o a.path[1]
    ELSE "https://github.com/"
             \o (IF a.fork = None THEN "qtile" ELSE a.fork[1]) \o "/qtile"

\* The ref qualifiers in the order of precedence: commit, tag, branch.
SpecQualifiers(a) ==
    (IF a.commit # None THEN <<"#commit=" \o a.commit[1]>> ELSE <<>>)
        \o (IF a.tag # None THEN <<"#tag=" \o a.tag[1]>> ELSE <<>>)
        \o (IF a.branch # None THEN <<"#branch=" \o a.branch[1]>> ELSE <<>>)

SpecSuffix(a) ==
    IF SpecQualifiers(a) = <<>> THEN "" ELSE Head(SpecQualifiers(a))

\* C8: get_source returns the origin (file://<localPath>, else
\* https://github.com/<forkName>/qtile with forkName defaulting to qtile)
\* followed by the first of #commit=, #tag=, #branch= that is set, or by
\* nothing; the two scenarios of the specification give the stated URLs.
C8_SourceReference ==
    pc = "remove_repo" =>
        /\ source = SpecOrigin(args) \o SpecSuffix(args)
        /\ (/\ args.fork \in {None, Some("qtile")}
            /\ args.path = None /\ args.commit = None /\ args.tag = None
            /\ args.branch = Some("next"))
               => source = "https://github.com/qtile/qtile#branch=next"
        /\ (/\ args.fork = Some("alice") /\ args.path = None
            /\ args.commit = Some("abc123"))
               => source = "https://github.com/alice/qtile#commit=abc123"

C8_Witness ==
    /\ pc = "remove_repo"
    /\ args.fork = Some("alice")
    /\ args.path = None
    /\ args.commit = Some("abc123")
    /\ args.tag = Some("v0.28.1")
    /\ args.branch = Some("next")
    /\ source = "https://github.com/alice/qtile#commit=abc123"

----------------------------------------------------------------------------
(* The restart *)

RestartReplies ==
    {trace[i].res : i \in {k \in DOMAIN trace : trace[k].op = "restart"}}

InstallRan ==
    \E i \in DOMAIN trace :
        trace[i].op = "pacman -U" /\ trace[i].res \in {"success", "failure"}

\* C9: if restart was not requested, no restart command is ever sent,
\* whatever the outcomes of build and install; a run that got past the
\* install ends on the reminder to restart manually.
C9_NoRestartUnlessRequested ==
    ~args.restart =>
        /\ RestartReplies = {}
        /\ pc # "restart"
        /\ (InstallRan /\ InstalledMarker \in
                {install_log[i] : i \in DOMAIN install_log})
               => /\ pc = "exited"
                  /\ exit_code = Some(0)
                  /\ trace[Len(trace)] = Reminder

C9_Witness ==
    /\ ~args.restart
    /\ pc = "exited"
    /\ \E i \in DOMAIN trace :
           trace[i].op = "pacman -U" /\ trace[i].res = "failure"
    /\ trace[Len(trace)] = Reminder

\* C10: once the restart call is issued, the run ends; it ends with exit
\* code 0 if and only if the reply is null; any other reply, or a transport
\* error, ends it with the restart-failure error and exit code 1.
C10_RestartReply ==
    RestartReplies # {} =>
        /\ pc = "exited"
        /\ Cardinality(RestartReplies) = 1
        /\ trace[Len(trace)].op # "restart" => trace[Len(trace) - 1].op = "restart"
        /\ \A r \in RestartReplies :
              /\ r = "Null" <=> exit_code = Some(0)
              /\ r = "Null" => trace[Len(trace)].op = "restart"
              /\ r \in NonNullReplies =>
                    /\ exit_code = Some(1)
                    /\ trace[Len(trace)] =
                           LogError("restart failed, please restart manually")
              /\ r = "Err" =>
                    /\ exit_code = Some(1)
                    /\ trace[Len(trace)] =
                           LogError("Qtile is probably not running")

C10_Witness ==
    /\ RestartReplies = {"String"}
    /\ exit_code = Some(1)

----------------------------------------------------------------------------
(* modify_pkgbuild: the line list written, against the lines read.  The    *)
(* positions are those of TLA+ sequences: line i of orig is the line the   *)
(* loop enumerates with index = i - 1.                                     *)

\* modify_pkgbuild has written the PKGBUILD.
Patched ==
    pc = "install"

LicenseIdx ==
    {i \in DOMAIN orig : license_regex_is_match(orig[i])}

SourceIdx ==
    {i \in DOMAIN orig : source_regex_is_match(orig[i])}

CdIdx ==
    {i \in DOMAIN orig : cd_regex_is_match(orig[i])}

\* A directory-change line with a version-describe line two lines later.
CdDescribeIdx ==
    {i \in CdIdx : i + 2 <= Len(orig) /\ describe_regex_is_match(orig[i + 2])}

InsertedLines ==
    {GroupsLine, RemoteAddLine, FetchTagsLine}

IsOriginal(l) ==
    l \notin InsertedLines

\* The line list without the lines the patcher inserts.
Kept(ls) ==
    SelectSeq(ls, IsOriginal)

Count(l, ls) ==
    Cardinality({p \in DOMAIN ls : ls[p] = l})

\* No iteration before that of line i has inserted a line.
NoInsertionBefore(i) ==
    /\ \A j \in 1..(i - 1) : j \notin LicenseIdx
    /\ \A j \in 1..(i - 1) : j \notin CdDescribeIdx

\* C5 as claimed: with one source-declaration line followed by a line,
\* whatever precedes it, the line after the source-declaration line is
\* replaced by source=('git+<ref>') and the source-declaration line and every
\* other original line are left verbatim.
C5_PlaceholderReplaced ==
    Patched =>
        \A i \in SourceIdx :
            (SourceIdx = {i} /\ i < Len(orig)) =>
                /\ Kept(lines) = [orig EXCEPT ![i + 1] = SourceLine(source)]
                /\ \E p \in 1..(Len(lines) - 1) :
                       lines[p] = orig[i] /\ lines[p + 1] = SourceLine(source)

\* C5 as amended: the same, for a source-declaration line that is not a
\* license-declaration line and before which no line was inserted in the pass
\* (no license-declaration line, no directory-change line with a
\* version-describe line two lines later).
C5_PlaceholderReplacedIfUnshifted ==
    Patched =>
        \A i \in SourceIdx :
            (/\ SourceIdx = {i}
             /\ i < Len(orig)
             /\ i \notin LicenseIdx
             /\ NoInsertionBefore(i)) =>
                /\ Kept(lines) = [orig EXCEPT ![i + 1] = SourceLine(source)]
                /\ lines[i] = orig[i]
                /\ lines[i + 1] = SourceLine(source)

C5_Witness ==
    /\ Patched
    /\ \E i \in SourceIdx :
          /\ SourceIdx = {i}
          /\ i < Len(orig)
          /\ NoInsertionBefore(i)
          /\ orig[i + 1] = Append(OtherLine, NL)
          /\ \E j \in LicenseIdx : j > i + 1
          /\ lines[i + 1] = SourceLine(source)

\* C6 as claimed: with one directory-change line followed two lines later by
\* a version-describe line, whatever was inserted earlier, exactly the two
\* lines remote-add and fetch are inserted and they sit immediately after the
\* directory-change line.
C6_InsertedAfterCd ==
    Patched =>
        \A i \in CdDescribeIdx :
            CdIdx = {i} =>
                /\ Count(RemoteAddLine, lines) = 1
                /\ Count(FetchTagsLine, lines) = 1
                /\ \E p \in 1..(Len(lines) - 2) :
                       /\ lines[p] = orig[i]
                       /\ lines[p + 1] = RemoteAddLine
                       /\ lines[p + 2] = FetchTagsLine

\* The lines next to line i match neither the license nor the source pattern.
PlainAt(i) ==
    i \in DOMAIN orig => i \notin LicenseIdx \cup SourceIdx

\* C6 as amended: when no line was inserted earlier in the pass, the lines
\* around are plain and the version-describe line is not itself a
\* directory-change line, the two lines are inserted, remote-add then fetch,
\* one line below the directory-change line: immediately before the
\* version-describe line, not immediately after the directory-change line.
C6_InsertedBeforeDescribe ==
    Patched =>
        \A i \in CdDescribeIdx :
            (/\ i \notin LicenseIdx \cup SourceIdx
             /\ NoInsertionBefore(i)
             /\ i - 1 \notin SourceIdx
             /\ PlainAt(i + 1)
             /\ PlainAt(i + 2)
             /\ PlainAt(i + 3)
             /\ i + 2 \notin CdIdx) =>
                /\ lines[i] = orig[i]
                /\ lines[i + 1] = orig[i + 1]
                /\ lines[i + 2] = RemoteAddLine
                /\ lines[i + 3] = FetchTagsLine
                /\ lines[i + 4] = orig[i + 2]
                /\ CdIdx = {i} =>
                       /\ Count(RemoteAddLine, lines) = 1
                       /\ Count(FetchTagsLine, lines) = 1
                       /\ Len(lines) = Len(orig) + 2 + Count(GroupsLine, lines)

C6_Witness ==
    /\ Patched
    /\ orig = <<Append(OtherLine, NL), Append(CdLine, NL),
                Append(OtherLine, NL), Append(DescribeLine, NL)>>
    /\ lines = <<Append(OtherLine, NL), Append(CdLine, NL),
                 Append(OtherLine, NL), RemoteAddLine, FetchTagsLine,
                 Append(DescribeLine, NL)>>

RECURSIVE Marked(_)
\* The lines o with a marker line after every license-declaration line.
Marked(o) ==
    IF o = <<>>
    THEN <<>>
    ELSE (IF license_regex_is_match(Head(o))
          THEN <<Head(o), GroupsLine>>
          ELSE <<Head(o)>>) \o Marked(Tail(o))

\* C7 as claimed: every license-declaration line gets one marker line, and
\* the marker is the line immediately after it, also with several such lines
\* (stated for recipes without source-declaration and directory-change
\* lines).
C7_MarkerAfterEachLicense ==
    (Patched /\ SourceIdx = {} /\ CdIdx = {}) => lines = Marked(orig)

\* C7 as amended: every license-declaration line adds one marker line, which
\* is at position index + 1 of the line list written; it is the line
\* immediately after its license-declaration line when no line was inserted
\* earlier in the pass, which holds for the first license-declaration line
\* and not for a later one.
C7_MarkerAtIndexPlusOne ==
    Patched =>
        /\ Count(GroupsLine, lines) = Cardinality(LicenseIdx \ SourceIdx)
        /\ \A i \in LicenseIdx \ SourceIdx :
              /\ lines[i + 1] = GroupsLine
              /\ (NoInsertionBefore(i) /\ i - 1 \notin SourceIdx)
                     => lines[i] = orig[i]

C7_Witness ==
    /\ Patched
    /\ orig = <<Append(LicenseDecl, NL), Append(OtherLine, NL),
                Append(LicenseDecl, NL)>>
    /\ lines = <<Append(LicenseDecl, NL), GroupsLine, Append(OtherLine, NL),
                 GroupsLine, Append(LicenseDecl, NL)>>


----------------------------------------------------------------------------
(* modify_pkgbuild run a second time, on the PKGBUILD the first run wrote *)

\* The lines the second run reads.
FirstOutput ==
    split_inclusive(pkgbuild)

\* The second run: its line list, or panic.
SecondRun ==
    modify_lines(pkgbuild, source)

LicenseLinesOf(ls) ==
    {p \in DOMAIN ls : license_regex_is_match(ls[p])}

\* Every source-declaration line has exactly one license-declaration line and
\* no directory-change line before it: the replacement at index + 1 then
\* falls on the source-declaration line itself, in both runs.
SelfReplacing ==
    \A i \in SourceIdx :
        /\ Cardinality({j \in LicenseIdx : j < i}) = 1
        /\ {j \in CdIdx : j < i} = {}

\* C11 as claimed: whenever the second run writes its output, that output has
\* two marker lines for every license-declaration line of the recipe.
C11_TwoMarkersPerLicense ==
    (Patched /\ ~SecondRun.panic) =>
        Count(GroupsLine, SecondRun.lines) = 2 * Cardinality(LicenseIdx)

\* A line near the end of ls whose iteration can index past the end: a
\* directory-change line among the last two, a source-declaration line last.
EndsOnMatch(ls) ==
    \E p \in DOMAIN ls :
        \/ p >= Len(ls) - 1 /\ cd_regex_is_match(ls[p])
        \/ p = Len(ls) /\ source_regex_is_match(ls[p])

\* C11 as amended: when the source replacement falls on the
\* source-declaration line itself, the second run either aborts on an index
\* out of bounds, which takes a matching line at the end of its input, or
\* adds one marker line for every license-declaration line it reads and
\* changes no other line; the recipe then has as many license-declaration
\* lines as before, and two marker lines for each of them unless the first
\* run's marker was joined to an unterminated last line.
C11_SecondRunAddsMarkers ==
    (Patched /\ SelfReplacing) =>
        IF SecondRun.panic
        THEN EndsOnMatch(FirstOutput)
        ELSE /\ Count(GroupsLine, SecondRun.lines) =
                    Count(GroupsLine, FirstOutput)
                    + Cardinality(LicenseLinesOf(FirstOutput))
             /\ Cardinality(LicenseLinesOf(FirstOutput))
                    = Cardinality(LicenseIdx)
             /\ Kept(SecondRun.lines) = Kept(FirstOutput)
             /\ FirstOutput = lines =>
                    Count(GroupsLine, SecondRun.lines)
                        = 2 * Cardinality(LicenseIdx)

C11_Witness ==
    /\ Patched
    /\ orig = <<Append(OtherLine, NL), Append(LicenseDecl, NL),
                Append(SourceDecl, NL), Append(OtherLine, NL)>>
    /\ ~SecondRun.panic
    /\ SecondRun.lines = <<Append(OtherLine, NL), Append(LicenseDecl, NL),
                           GroupsLine, GroupsLine, SourceLine(source),
                           Append(OtherLine, NL)>>


----------------------------------------------------------------------------
(* The order of the steps of main *)

\* An event of install: the log file, the build, the query, a removal, the
\* install or the restart.
IsInstallEvent(e) ==
    \/ e.op = "create"
    \/ IsPhaseEvent(e)

\* Before event k the working directory was cleared: no ordinary delete
\* failed, or the privileged delete succeeded.
CacheClearedBefore(k) ==
    \/ \A j \in 1..(k - 1) :
           ~(trace[j].op = "remove_dir_all" /\ trace[j].arg = RepoPath
             /\ trace[j].res = "err")
    \/ \E j \in 1..(k - 1) :
           trace[j].op = "sudo rm -rf" /\ trace[j].res = "success"

DoneBefore(op, k) ==
    \E j \in 1..(k - 1) : trace[j].op = op /\ trace[j].res = "ok"

\* C12: install starts only after the cache clear, the fetch and the recipe
\* read and write back have succeeded in the run; after a failed fetch,
\* recipe read or recipe write no step of install is executed.
C12_BuildOnlyAfterPreparation ==
    \A k \in DOMAIN trace :
        /\ IsInstallEvent(trace[k]) =>
              /\ CacheClearedBefore(k)
              /\ DoneBefore("git clone", k)
              /\ DoneBefore("read", k)
              /\ DoneBefore("write", k)
        /\ (trace[k].op \in {"git clone", "read", "write"}
            /\ trace[k].res = "err") =>
              /\ pc = "exited"
              /\ exit_code = Some(1)
              /\ \A j \in DOMAIN trace : j > k => ~IsInstallEvent(trace[j])


----------------------------------------------------------------------------
(* The build *)

\* The events after event k of the trace.
EventsAfter(k) ==
    {trace[j] : j \in (k + 1)..Len(trace)}

\* C13: when makepkg exits without success, the run logs the error that
\* names the path of install.log and ends: no query, no artifact removal, no
\* install and no restart call follows.
C13_BuildFailureEndsRun ==
    \A k \in DOMAIN trace :
        (trace[k].op = "makepkg" /\ trace[k].res = "failure") =>
            /\ pc = "exited"
            /\ EventsAfter(k) =
                   {LogError("Qtile build failed, check in "
                                 \o RepoPath \o "/install.log")}
            /\ \A e \in EventsAfter(k) : ~IsPhaseEvent(e)
            /\ \A p \in ArtifactPaths : fs[p] = "unknown"
            /\ InstallingHeader \notin
                   {install_log[i] : i \in DOMAIN install_log}

C13_Witness ==
    /\ pc = "exited"
    /\ Len(trace) >= 2
    /\ trace[Len(trace) - 1].op = "makepkg"
    /\ trace[Len(trace) - 1].res = "failure"
    /\ trace[Len(trace)].op = "log::error"


----------------------------------------------------------------------------
(* modify_pkgbuild: the number of lines *)

RECURSIVE describe_fired(_, _, _, _)
\* The number of iterations from i on in which the describe condition held
\* and the two lines were inserted.
describe_fired(o, live, i, src) ==
    IF i >= Len(o)
    THEN 0
    ELSE LET line == o[i + 1]
             l2 == after_source(after_license(live, i, line), i, line, src)
             r == scan_step(live, i, line, src)
         IN  IF r.panic
             THEN 0
             ELSE (IF describe_fires(l2, i, line) THEN 1 ELSE 0)
                      + describe_fired(o, r.lines, i + 1, src)

\* The lines the patcher inserts into the recipe read.
InsertedCount ==
    Cardinality(LicenseIdx) + 2 * describe_fired(orig, orig, 0, source)

\* C14 as claimed: the patched recipe has the number of lines of the original
\* plus one per license-declaration match and two per directory-change match
\* whose describe condition fired.
C14_LineCountOfRecipe ==
    Patched => Len(FirstOutput) = Len(orig) + InsertedCount

\* C14 as amended: the line list written has that number of lines, whatever
\* the source replacement did; the recipe written has it too, or one line
\* less when a marker was inserted after a last line without terminator,
\* which joins the two.
C14_LineCountOfLineList ==
    Patched =>
        /\ Len(lines) = Len(orig) + InsertedCount
        /\ Len(FirstOutput) \in {Len(lines), Len(lines) - 1}
        /\ Len(FirstOutput) # Len(lines) =>
               /\ Len(orig) \in LicenseIdx
               /\ orig[Len(orig)] = LicenseDecl
               /\ lines[Len(lines)] = GroupsLine
        /\ pkgbuild = concat(lines)

C14_Witness ==
    /\ Patched
    /\ orig = <<Append(CdLine, NL), Append(SourceDecl, NL),
                Append(DescribeLine, NL), Append(LicenseDecl, NL)>>
    /\ Len(lines) = 7
    /\ Count(RemoteAddLine, lines) = 0
    /\ Len(FirstOutput) = 7


----------------------------------------------------------------------------
(* modify_pkgbuild: the indices of the live line list *)

\* C15: the patcher never aborts on an index: in every iteration the indices
\* index + 1 and index + 2 it reads or writes are within the live line list,
\* and it ends with the recipe written or with a read or write error.
C15_IndicesWithinBounds ==
    /\ (pc = "scan" /\ index < Len(orig)) =>
           ~scan_step(lines, index, vec_at(orig, index), source).panic
    /\ exit_code # Some(101)
    /\ pc = "exited" =>
           /\ exit_code = Some(1)
           /\ trace[Len(trace)] \in {LogError("could not read PKGBUILD"),
                                     LogError("could not write to PKGBUILD")}


----------------------------------------------------------------------------
(* modify_pkgbuild: patterns without a match *)

\* C16: a recipe without a line matching the license, source or
\* directory-change pattern is written back as it was read and the patcher
\* does not abort on it; a pattern without a match changes nothing (no
\* marker without a license-declaration line, no replacement without a
\* source-declaration line, no remote-add and fetch lines without a
\* directory-change line) and an abort needs a matching line.
C16_NoMatchNoChange ==
    /\ (LicenseIdx = {} /\ SourceIdx = {} /\ CdIdx = {}) =>
           /\ lines = orig
           /\ pc \in {"scan", "install"} => pkgbuild = concat(orig)
           /\ exit_code # Some(101)
    /\ LicenseIdx = {} => Count(GroupsLine, lines) = 0
    /\ SourceIdx = {} =>
           /\ Count(SourceLine(source), lines) = 0
           /\ Kept(lines) = orig
    /\ CdIdx = {} =>
           /\ Count(RemoteAddLine, lines) = 0
           /\ Count(FetchTagsLine, lines) = 0
    /\ exit_code = Some(101) => SourceIdx \cup CdIdx # {}

C16_Witness ==
    /\ Patched
    /\ orig = <<Append(OtherLine, NL), Append(DescribeLine, NL), OtherLine>>
    /\ lines = orig
    /\ pkgbuild = concat(orig)


----------------------------------------------------------------------------
(* The removal of the artifacts *)

\* The positions of the trace where an artifact path is looked at.
Looked ==
    {k \in DOMAIN trace : trace[k].op = "exists"}

\* What the path p was found to be.
FoundAs(p) ==
    {trace[k].res : k \in {j \in Looked : trace[j].arg = p}}

\* The deletion calls on the path p.
DeletionsOf(p) ==
    {k \in DOMAIN trace :
         trace[k].op \in {"remove_dir_all", "remove_file"} /\ trace[k].arg = p}

\* The removal step went through the whole list.
RemovalDone ==
    QueryResult = {"failure"} /\ pc \in {"install_pkg", "restart", "exited"}
        /\ del_index = Len(to_be_deleted)

\* C17: in the removal step every path of the list is looked at once, in the
\* order of the list; a path found as a directory gets one recursive delete,
\* a path found as a file one single-file delete, an absent path no deletion
\* call and no error; no other path is looked at or deleted; when the step
\* has gone through the list, every path that existed is removed.
C17_ExactlyExistingRemoved ==
    /\ \A k \in Looked :
          /\ trace[k].arg \in ArtifactPaths
          /\ Cardinality({j \in Looked : j <= k}) \in DOMAIN to_be_deleted
          /\ trace[k].arg = to_be_deleted[Cardinality({j \in Looked : j <= k})]
          /\ trace[k].res = "dir" =>
                 /\ k < Len(trace)
                 /\ trace[k + 1].op = "remove_dir_all"
                 /\ trace[k + 1].arg = trace[k].arg
          /\ trace[k].res = "file" =>
                 /\ k < Len(trace)
                 /\ trace[k + 1].op = "remove_file"
                 /\ trace[k + 1].arg = trace[k].arg
          /\ trace[k].res = "absent" => DeletionsOf(trace[k].arg) = {}
    /\ \A k \in DOMAIN trace :
          (trace[k].op \in {"remove_dir_all", "remove_file"}
           /\ trace[k].arg # RepoPath) =>
              /\ trace[k].arg \in ArtifactPaths
              /\ k - 1 \in Looked
              /\ trace[k - 1].arg = trace[k].arg
              /\ trace[k - 1].res \in {"dir", "file"}
    /\ \A p \in ArtifactPaths : Cardinality(DeletionsOf(p)) <= 1
    /\ \A k \in DOMAIN trace :
          trace[k] = LogError("remove: io error") =>
              /\ k - 1 \in DeletionsOf(trace[k - 1].arg)
              /\ trace[k - 1].res = "err"
    /\ RemovalDone =>
          \A p \in ArtifactPaths :
              /\ Cardinality(FoundAs(p)) = 1
              /\ fs[p] = "absent"
              /\ FoundAs(p) # {"absent"} =>
                     \E k \in DeletionsOf(p) : trace[k].res = "ok"

C17_Witness ==
    /\ RemovalDone
    /\ FoundAs(to_be_deleted[1]) = {"file"}
    /\ FoundAs(to_be_deleted[2]) = {"dir"}
    /\ FoundAs(to_be_deleted[3]) = {"absent"}
    /\ \A p \in ArtifactPaths : fs[p] = "absent"


----------------------------------------------------------------------------
(* The privilege prompt of remove_repo *)

Prompts ==
    {k \in DOMAIN trace : trace[k].op = "prompt"}

PrivilegedDeletes ==
    {k \in DOMAIN trace : trace[k].op = "sudo rm -rf"}

\* C18: the prompt is shown at most once in a run, and only immediately
\* after the ordinary recursive delete of the working directory has failed;
\* the privileged delete is executed, once and immediately after the prompt,
\* if and only if the answer is empty, "y" or "Y".
C18_PromptOnceAndOnlyYes ==
    /\ Cardinality(Prompts) <= 1
    /\ Len(ans) = Cardinality(Prompts)
    /\ Cardinality(PrivilegedDeletes) <= 1
    /\ \A k \in Prompts :
          /\ k > 1
          /\ trace[k - 1] = Event("remove_dir_all", RepoPath, "err")
          /\ trace[k].res = ans[1]
          /\ trace[k].res \in {"", "y", "Y"} =>
                 /\ k < Len(trace)
                 /\ k + 1 \in PrivilegedDeletes
                 /\ trace[k + 1].arg = RepoPath
          /\ trace[k].res \notin {"", "y", "Y"} => PrivilegedDeletes = {}
    /\ \A k \in PrivilegedDeletes :
          /\ k - 1 \in Prompts
          /\ trace[k - 1].res \in {"", "y", "Y"}
    /\ (\E k \in DOMAIN trace :
            trace[k] = Event("remove_dir_all", RepoPath, "err"))
           => (pc = "prompt" \/ Prompts # {})

C18_Witness ==
    /\ ans = <<"Y">>
    /\ \E k \in PrivilegedDeletes : trace[k].res = "success"
    /\ pc = "clone_repo"


----------------------------------------------------------------------------
(* The install log *)

\* C19: the marker "package installed successfully" is in install.log only
\* in runs where sudo pacman -U exited with success; after a failed install
\* the log never has it.
C19_MarkerOnlyAfterSuccess ==
    InstalledMarker \in {install_log[i] : i \in DOMAIN install_log} =>
        /\ \E k \in DOMAIN trace :
               trace[k].op = "pacman -U" /\ trace[k].res = "success"
        /\ \A k \in DOMAIN trace : trace[k] # LogError(InstallFailedMsg)

============================================================================
